---- MODULE Spec2Model ----
(***************************************************************************)
(* MCTS player of src/MCTS_Hollow_NoGo/agent.h: the search tree (tree_node, *)
(* tree), selection / expansion / rollout / backpropagation, the turn       *)
(* orchestration mcts_take_action and the leaf-parallel rollout workers.    *)
(* board.h and action.h are not part of the sources at hand; the board is   *)
(* a NoGo board on a line of NCells points.                                 *)
(***************************************************************************)
EXTENDS Integers, Sequences, FiniteSets, TLC

(***************************************************************************)
(* Bounds of the model                                                      *)
(***************************************************************************)
\* number of points of the board (board::size_x * board::size_y in the code)
NCells == 4
\* fix_sim: simulation cycles per turn in fixed-simulation mode
SimCount == 5
\* number of take_action calls in one behaviour
MaxCalls == 4
\* p_leaf: number of rollout workers in the leaf-parallel specification
Workers == 2
\* the most time units one take_action call is seen to cost
MaxCost == 1
\* fix_sim and the number of take_action calls in the leaf-parallel specification
ParSimCount == 5
ParCalls == 1
\* the most seconds one simulation cycle is seen to take, and the number of
\* take_action calls, in the time-managed specification
MaxCycleCost == 2
TimedCalls == 3
\* simulation cycles of a turn, and calls of take_action, in the runs with
\* a long search
LongSimCount == 19
LongCalls == 2

(***************************************************************************)
(* Program constants                                                        *)
(***************************************************************************)
WIN_WEIGHT == 2
INIT_TIME == 300

\* #define EARLY_T
EARLY_T == 5000
INIT_WINRATE == 0
LEAF_SCALE == 200
UNSEEN_SELF == 999
UNSEEN_OPPO == 0
NO_SCORE == -999999
BASIC_C == 30
\* MCTS_agent::time_bonus without the key t_bonus
time_bonus == 1
\* sim_count once a time-management key is given
TIMED_SIM_COUNT == 99999999
\* the exploration weight C = 1.44, in hundredths
C_HUNDREDTHS == 144
\* scores are kept in units of 1/SCALE
SCALE == 1000

(***************************************************************************)
(* board.h / action.h                                                       *)
(***************************************************************************)
empty == 0
black == 1
white == 2

Cells == 0 .. (NCells - 1)

\* action(): the empty move, distinct from every placement
NoMove == [pos |-> -1, who |-> empty]

\* action::place(pos, who)
Place(p, w) == [pos |-> p, who |-> w]

\* the vector `space` / `oppo_space` of the constructor, in index order
Space(w) == [i \in 1 .. NCells |-> Place(i - 1, w)]

Other(w) == 3 - w

InitBoard == [stone |-> [c \in Cells |-> empty], who_take_turns |-> black]

\* the points of the block of equal stones that contains c
Block(st, c) ==
    {d \in Cells : \A e \in Cells :
        ((e >= d /\ e <= c) \/ (e >= c /\ e <= d)) => st[e] = st[c]}

\* number of empty points next to the block of c
check_liberty(st, c) ==
    Cardinality({e \in Cells : st[e] = empty
                    /\ \E d \in Block(st, c) : e = d - 1 \/ e = d + 1})

\* board::place(pos, who) as a test: is the placement legal on b
Legal(b, mv) ==
    /\ mv.who = b.who_take_turns
    /\ mv.pos \in Cells
    /\ b.stone[mv.pos] = empty
    /\ LET test == [b.stone EXCEPT ![mv.pos] = mv.who]
       IN  /\ check_liberty(test, mv.pos) > 0
           /\ \A d \in {mv.pos - 1, mv.pos + 1} \cap Cells :
                 test[d] = Other(mv.who) => check_liberty(test, d) > 0

\* the board after a legal placement
After(b, mv) ==
    [stone |-> [b.stone EXCEPT ![mv.pos] = mv.who],
     who_take_turns |-> Other(mv.who)]

LegalMoves(b, w) == {p \in Cells : Legal(b, Place(p, w))}

(***************************************************************************)
(* State                                                                    *)
(***************************************************************************)
VARIABLES
    who,                \* MCTS_player::who, the role of this agent
    leaf_parallel,      \* MCTS_agent::leaf_parallel (key p_leaf)
    sim_count,          \* MCTS_agent::sim_count (key fix_sim)
    exploration_w,      \* MCTS_agent::exploration_w (key C), in hundredths
    use_time_management, \* MCTS_agent::use_time_management
    basic_const,        \* MCTS_agent::basic_const (key basic_f)
    enhanced_peak,      \* MCTS_agent::enhanced_peak (key enhanced_f)
    unst_N,             \* MCTS_agent::unst_N (key unst)
    nodes,              \* the live tree_node objects, by identity
    root,               \* tree::root
    last_board,         \* MCTS_player::last_board
    turn,               \* MCTS_player::turn
    remaining_time,     \* MCTS_player::remaining_time
    state,              \* the board the game driver holds
    pc,                 \* position of the agent inside take_action
    i,                  \* loop counter of the simulation loop
    move,               \* local `move` of mcts_take_action
    ret,                \* the action returned by the last take_action
    calls,              \* number of take_action calls made
    last,               \* the step taken last, with the values it used
    threads,            \* position of each rollout worker
    outcome,            \* local `outcome` of each rollout worker
    mu,                 \* the global mutex: its holder, or 0
    simulation_results, \* MCTS_player::simulation_results
    engine_users,       \* the workers inside std::shuffle on `engine`
    exp,                \* the expansion in flight in leaf-parallel mode
    thinking_time,      \* local `thinking_time`, the quotient num / den
    elapsed,            \* seconds since `start` of the running take_action
    start2,             \* local `start2`, as seconds since `start`
    unst_N_thisstep,    \* local `unst_N_thisstep`
    early_key,          \* whether the key early was given to the constructor
    if_early,           \* MCTS_agent::if_early
    earlyc_p,           \* MCTS_agent::earlyc_p, in hundredths
    simcount_lastturn,  \* MCTS_player::simcount_lastturn
    ro                  \* the locals of a call of rollout run step by step

vars == <<who, leaf_parallel, sim_count, exploration_w, nodes, root, last_board, turn,
          remaining_time, state, pc, i, move, ret, calls, last, threads,
          outcome, mu, simulation_results, engine_users, exp,
          use_time_management, basic_const, enhanced_peak, unst_N,
          thinking_time, elapsed, start2, unst_N_thisstep,
          early_key, if_early, earlyc_p, simcount_lastturn, ro>>

cfgVars == <<who, leaf_parallel, sim_count, exploration_w, use_time_management,
             basic_const, enhanced_peak, unst_N, early_key, if_early, earlyc_p>>
timeVars == <<thinking_time, elapsed, start2, unst_N_thisstep>>
treeVars == <<nodes, root>>
parVars == <<threads, outcome, mu, simulation_results, engine_users, exp>>

oppo == Other(who)

Max(a, b) == IF a >= b THEN a ELSE b

\* std::max(1, leaf_parallel)
Width == Max(1, leaf_parallel)

(***************************************************************************)
(* tree_node                                                                *)
(***************************************************************************)
\* tree_node(role, mv, exp_w) and tree_node(role, exp_w)
NewNode(role, mv) ==
    [role |-> role, move |-> mv, wincount |-> INIT_WINRATE, visit_count |-> 0,
     is_leaf |-> FALSE, children |-> << >>]

\* a test that finds no child
has_child_never(n, mv) == FALSE

\* tree_node::has_child
has_child(n, mv) == mv \in DOMAIN n.children

\* an identity no live node has
FreshId(ns) == CHOOSE k \in 1 .. (Cardinality(DOMAIN ns) + 1) : k \notin DOMAIN ns

\* tree_node::new_child on node id: children[move] = make_shared<tree_node>
new_child(ns, id, role, mv) ==
    LET k == FreshId(ns)
        kids == [m \in (DOMAIN ns[id].children) \cup {mv} |->
                    IF m = mv THEN k ELSE ns[id].children[m]]
    IN  [j \in (DOMAIN ns) \cup {k} |->
            IF j = k THEN NewNode(role, mv)
            ELSE IF j = id THEN [ns[id] EXCEPT !.children = kids]
            ELSE ns[j]]

\* visit_record counting one visit whatever the parallel width
visit_record_once(n, result) ==
    [n EXCEPT !.wincount = @ + result, !.visit_count = @ + 1]

\* tree_node::visit_record(result, leaf_parallel)
visit_record(n, result) ==
    [n EXCEPT !.wincount = @ + result, !.visit_count = @ + Width]

\* a setter that assigns the count of wins and counts no visit
set_wincount_only(n, value) == [n EXCEPT !.wincount = value]

\* tree_node::set_wincount(value, leaf_parallel)
set_wincount(n, value) ==
    [n EXCEPT !.wincount = value, !.visit_count = @ + Width]

\* tree_node::set_leaf
set_leaf(n) == [n EXCEPT !.is_leaf = TRUE]

\* the nodes owned, directly or not, by node id
RECURSIVE Subtree(_, _)
Subtree(ns, id) ==
    {id} \cup UNION {Subtree(ns, ns[id].children[m]) : m \in DOMAIN ns[id].children}

\* a tree whose nodes stay alive once nothing owns them
ReleaseNothing(ns, r) == ns

\* what is left once every node the root does not own is released
Release(ns, r) == [j \in Subtree(ns, r) |-> ns[j]]

\* log(n) in millionths, n = 1 .. 64
LnTab ==
    <<0, 693147, 1098612, 1386294, 1609437, 1791759, 1945910, 2079441, 2197224,
      2302585, 2397895, 2484906, 2564949, 2639057, 2708050, 2772588, 2833213,
      2890371, 2944438, 2995732, 3044522, 3091042, 3135494, 3178053, 3218875,
      3258096, 3295836, 3332204, 3367295, 3401197, 3433987, 3465735, 3496507,
      3526360, 3555348, 3583518, 3610917, 3637586, 3663561, 3688879, 3713572,
      3737669, 3761200, 3784189, 3806662, 3828641, 3850147, 3871201, 3891820,
      3912023, 3931825, 3951243, 3970291, 3988984, 4007333, 4025351, 4043051,
      4060443, 4077537, 4094344, 4110873, 4127134, 4143134, 4158883>>

\* the largest r with r * r <= x, for lo * lo <= x < hi * hi
RECURSIVE ISqrt(_, _, _)
ISqrt(x, lo, hi) ==
    IF hi - lo <= 1 THEN lo
    ELSE LET mid == (lo + hi) \div 2
         IN  IF mid * mid <= x THEN ISqrt(x, mid, hi) ELSE ISqrt(x, lo, mid)

\* sqrt(log((double)visit_count) / c_vcount), in units of 1/SCALE
SqrtLogOver(visit_count, c_vcount) ==
    ISqrt(LnTab[visit_count] \div c_vcount, 0, 2100)

\* the value a double comparison never finds greater than anything:
\* sqrt(log(0) / c) and 0 / 0 are NaN
NaN == (NO_SCORE * SCALE) - 1

\* a sign taken from the role of the side that is to move after the move
SignByChild(n, w) == IF n.role = w THEN -1 ELSE 1

\* UCB_score, line 362: int p = role == who ? 1 : -1, role being the role of
\* the node whose moves are scored
Sign(n, w) == IF n.role = w THEN 1 ELSE -1

\* tree_node::UCB_score(move, who) of node n, in units of 1/SCALE, rounded
\* down; the scores of two children of one node that differ as doubles differ
\* by more than the rounding in every state reached here, so the order of
\* the scores is the order of the doubles
UCB_score(ns, n, mv, w) ==
    IF has_child(n, mv)
    THEN LET chld == ns[n.children[mv]]
             p == Sign(n, w)
         IN  IF chld.is_leaf THEN chld.wincount * LEAF_SCALE * SCALE
             ELSE IF chld.visit_count = 0 \/ n.visit_count = 0 THEN NaN
             ELSE ((p * chld.wincount * SCALE) \div chld.visit_count)
                  + ((exploration_w * SqrtLogOver(n.visit_count, chld.visit_count))
                        \div 100)
    ELSE IF n.role = w THEN UNSEEN_SELF * SCALE ELSE UNSEEN_OPPO * SCALE

\* the first child, in the order of the children map, is the least position
KeyOrder(vs) ==
    LET RECURSIVE Sorted(_)
        Sorted(S) == IF S = {} THEN << >>
                     ELSE LET m == CHOOSE x \in S : \A y \in S : x.pos <= y.pos
                          IN  <<m>> \o Sorted(S \ {m})
    IN  Sorted({m \in vs : m # NoMove})
            \o (IF NoMove \in vs THEN <<NoMove>> ELSE << >>)

\* tree_node::highest_win_children of node n; the win rates wincount /
\* visit_count are compared as quotients, and a child never visited and never
\* won has the rate 0 / 0, which no comparison accepts
highest_win_children(ns, n) ==
    LET keys == KeyOrder(DOMAIN n.children)
        RECURSIVE Iter(_, _, _, _)
        Iter(k, best_action, best_w, best_v) ==
            IF k > Len(keys) THEN best_action
            ELSE LET c == ns[n.children[keys[k]]]
                 IN  IF c.visit_count > 0
                        /\ c.wincount * best_v >= best_w * c.visit_count
                     THEN Iter(k + 1, keys[k], c.wincount, c.visit_count)
                     ELSE Iter(k + 1, best_action, best_w, best_v)
    IN  Iter(1, NoMove, 0, 1)

\* the choice of the final move made by win rate
best_children_by_winrate(ns, n) == highest_win_children(ns, n)

\* tree_node::best_children of node n
best_children(ns, n) ==
    LET keys == KeyOrder(DOMAIN n.children)
        RECURSIVE Iter(_, _, _)
        Iter(k, best_action, best_count) ==
            IF k > Len(keys) THEN best_action
            ELSE LET count == ns[n.children[keys[k]]].visit_count
                 IN  IF count >= best_count THEN Iter(k + 1, keys[k], count)
                     ELSE Iter(k + 1, best_action, best_count)
    IN  Iter(1, NoMove, 0)

(***************************************************************************)
(* tree                                                                     *)
(***************************************************************************)
\* a child made by move_root keeping the role of the root
OppositeKept(role) == role

\* tree::move_root, lines 419-423: the role given to a child made on the way
Opposite(role) == IF role = white THEN black ELSE white

\* move_root making a new child even where the root has one for the move
move_root_anew(ns, r, mv) ==
    LET grown == new_child(ns, r, Opposite(ns[r].role), mv)
    IN  [nodes |-> Release(grown, grown[r].children[mv]),
         root |-> grown[r].children[mv]]

\* tree::move_root(mv): the nodes and the root afterwards
move_root(ns, r, mv) ==
    IF has_child(ns[r], mv)
    THEN [nodes |-> Release(ns, ns[r].children[mv]), root |-> ns[r].children[mv]]
    ELSE LET grown == new_child(ns, r, Opposite(ns[r].role), mv)
         IN  [nodes |-> Release(grown, grown[r].children[mv]),
              root |-> grown[r].children[mv]]

\* tree::reset_tree(who)
reset_tree(ns, w) ==
    LET k == FreshId(ns)
    IN  [nodes |-> [j \in {k} |-> NewNode(w, NoMove)], root |-> k]

(***************************************************************************)
(* rollout                                                                  *)
(***************************************************************************)
\* the values rollout(state) can return: every order of the shuffled empty
\* points is played until the side to move has no legal placement left
RECURSIVE rollout(_)
rollout(b) ==
    LET L == LegalMoves(b, b.who_take_turns)
    IN  IF L = {}
        THEN {IF Other(b.who_take_turns) = who THEN WIN_WEIGHT ELSE 0}
        ELSE UNION {rollout(After(b, Place(p, b.who_take_turns))) : p \in L}

(***************************************************************************)
(* selection                                                                *)
(***************************************************************************)
\* the scan of selection over auto_space: the move of the greatest UCB score,
\* the first one among equals
BestOf(ns, id, b) ==
    LET n == ns[id]
        auto_space == IF n.role = oppo THEN Space(oppo) ELSE Space(who)
        RECURSIVE Scan(_, _, _)
        Scan(k, best_move, best_score) ==
            IF k > Len(auto_space) THEN [move |-> best_move, score |-> best_score]
            ELSE IF Legal(b, auto_space[k])
                    /\ UCB_score(ns, n, auto_space[k], who) > best_score
                 THEN Scan(k + 1, auto_space[k], UCB_score(ns, n, auto_space[k], who))
                 ELSE Scan(k + 1, best_move, best_score)
    IN  Scan(1, NoMove, NO_SCORE * SCALE)

\* the descent of one selection call started at node id on board b: the nodes
\* it enters, and where it ends (a node without a legal move, or an expansion)
RECURSIVE Descend(_, _, _)
Descend(ns, b, id) ==
    LET best == BestOf(ns, id, b)
    IN  IF best.score = NO_SCORE * SCALE
        THEN [path |-> <<id>>, terminal |-> TRUE, best_move |-> NoMove,
              best_after |-> b, first |-> NoMove]
        ELSE IF has_child(ns[id], best.move)
        THEN LET d == Descend(ns, After(b, best.move), ns[id].children[best.move])
             IN  [d EXCEPT !.path = <<id>> \o @, !.first = best.move]
        ELSE [path |-> <<id>>, terminal |-> FALSE, best_move |-> best.move,
              best_after |-> After(b, best.move), first |-> best.move]

InPath(path, id) == \E k \in 1 .. Len(path) : path[k] = id

\* selection, lines 507-517: the node has no legal move
MarkTerminal(ns, id) ==
    LET win == IF ns[id].role = oppo
               THEN (ns[id].visit_count + Width) * WIN_WEIGHT ELSE 0
    IN  [nodes |-> [ns EXCEPT ![id] = set_leaf(set_wincount(ns[id], win))],
         result |-> IF win # 0 THEN WIN_WEIGHT ELSE 0]

\* the callers counting the visit without the result of the call
BackpropNoResult(ns, path, upto, result) ==
    [j \in DOMAIN ns |->
        IF \E k \in 1 .. upto : path[k] = j THEN visit_record(ns[j], 0)
        ELSE ns[j]]

\* selection, lines 518-523: visit_record on every node the call returns through
Backprop(ns, path, upto, result) ==
    [j \in DOMAIN ns |->
        IF \E k \in 1 .. upto : path[k] = j THEN visit_record(ns[j], result)
        ELSE ns[j]]

\* a new child given the role of its parent
ChildRoleSame(n) == n.role

\* selection, lines 527-533: the role of the new child
ChildRole(n) == IF n.role = white THEN black ELSE white

\* an expansion whose result is recorded on the parent alone
RecordExpansionParentOnly(ns, id, mv, result) ==
    [ns EXCEPT ![id] = visit_record(@, result)]

\* selection, lines 561-562: the new child and its parent record the result
RecordExpansion(ns, id, mv, result) ==
    [ns EXCEPT ![ns[id].children[mv]] = visit_record(@, result),
               ![id] = visit_record(@, result)]

\* what one call selection(state, root) does to the tree once its descent d
\* is known, the rollout (without leaf-parallel workers) returning r
selection(ns, d, r) ==
    LET tip == d.path[Len(d.path)]
    IN  IF d.terminal
        THEN LET t == MarkTerminal(ns, tip)
             IN  [nodes |-> Backprop(t.nodes, d.path, Len(d.path) - 1, t.result),
                  first |-> d.first, result |-> t.result, path |-> d.path,
                  created |-> 0]
        ELSE LET grown == new_child(ns, tip, ChildRole(ns[tip]), d.best_move)
                 done == RecordExpansion(grown, tip, d.best_move, r)
             IN  [nodes |-> Backprop(done, d.path, Len(d.path) - 1, r),
                  first |-> d.first, result |-> r, path |-> d.path,
                  created |-> grown[tip].children[d.best_move]]

(***************************************************************************)
(* Turn orchestration                                                       *)
(***************************************************************************)
\* the replay of handle_oppo_turn run over this agent's own move space
FindOwnMove(lb, st) ==
    LET sp == Space(who)
        hits == {k \in 1 .. Len(sp) : Legal(lb, sp[k]) /\ After(lb, sp[k]) = st}
    IN  IF hits = {} THEN NoMove
        ELSE sp[CHOOSE k \in hits : \A h \in hits : k <= h]

\* handle_oppo_turn, lines 568-578: the first move of oppo_space that turns
\* last_board into the observed board, or the empty move
FindOppoMove(lb, st) ==
    LET sp == Space(oppo)
        hits == {k \in 1 .. Len(sp) : Legal(lb, sp[k]) /\ After(lb, sp[k]) = st}
    IN  IF hits = {} THEN NoMove
        ELSE sp[CHOOSE k \in hits : \A h \in hits : k <= h]

\* handle_oppo_turn(state): the tree, the turn counter and the time budget after
handle_oppo_turn(ns, r, t, rt, lb, st) ==
    LET oppo_mv == FindOppoMove(lb, st)
    IN  IF oppo_mv = NoMove
        THEN [tree |-> reset_tree(ns, who), turn |-> 0, remaining_time |-> INIT_TIME,
              oppo_mv |-> NoMove]
        ELSE [tree |-> move_root(ns, r, oppo_mv), turn |-> t, remaining_time |-> rt,
              oppo_mv |-> oppo_mv]

\* mcts_take_action, lines 661-673: reconcile, or start a new game
Reconcile(ns, r, t, rt, lb, st) ==
    IF t # 0 THEN handle_oppo_turn(ns, r, t, rt, lb, st)
    ELSE [tree |-> reset_tree(ns, who), turn |-> 0, remaining_time |-> INIT_TIME,
          oppo_mv |-> NoMove]

\* a loop that makes no pass at all
LoopPcNone(k) == "end"

\* a loop that stops one pass short of sim_count
LoopPcShort(k) == IF k + 1 < sim_count THEN "loop" ELSE "end"

\* the for loop of line 692 goes on while i < sim_count
LoopPc(k) == IF k < sim_count THEN "loop" ELSE "end"

\* the for loop of line 726 goes on while i < sim_count
BurstPc(k) == IF k < sim_count THEN "burst" ELSE "end"

\* no thinking time: the local does not exist outside a call, and without
\* time management and early stop nothing reads it (lines 696 and 730 test
\* use_time_management, lines 685 and 712 follow if_early and earlyc_p)
NoTime == [num |-> 0, den |-> 1]

\* a schedule whose divisor starts at basic_const and grows with the turn
\* counter up to the peak
ThinkingTimeOpening(rt, t) ==
    IF enhanced_peak # 0
    THEN [num |-> rt * time_bonus,
          den |-> basic_const + (enhanced_peak - Max(enhanced_peak - (t * 2), 0))]
    ELSE IF basic_const # 0
    THEN [num |-> rt * time_bonus, den |-> basic_const]
    ELSE NoTime

\* mcts_take_action, lines 649-657: thinking_time as the quotient num / den
\* of the time budget rt and the divisor of the turn counter t
ThinkingTime(rt, t) ==
    IF enhanced_peak # 0
    THEN [num |-> rt * time_bonus,
          den |-> basic_const + Max(enhanced_peak - (t * 2), 0)]
    ELSE IF basic_const # 0
    THEN [num |-> rt * time_bonus, den |-> basic_const]
    ELSE NoTime

\* a time check that lets one more cycle start
TimeIsUpLate(cost, tt) == use_time_management /\ (cost - 1) * tt.den >= tt.num

\* line 696: (cost >= thinking_time) && use_time_management
TimeIsUp(cost, tt) == use_time_management /\ cost * tt.den >= tt.num

\* line 729: (cost >= thinking_time/2) && use_time_management
HalfTimeIsUp(cost, tt) == use_time_management /\ cost * tt.den * 2 >= tt.num

\* the seconds one simulation cycle takes; without time management the clock
\* plays no part before the return
CycleCosts == IF use_time_management THEN 1 .. MaxCycleCost ELSE {0}

\* line 764: the cost of the call, (end - start) / CLOCKS_PER_SEC
ReturnCosts == IF use_time_management THEN {elapsed} ELSE 0 .. MaxCost

\* is_unstable(move), lines 630-634, on the tree rooted at r
is_unstable(ns, r) ==
    /\ highest_win_children(ns, ns[r]) # best_children(ns, ns[r])
    /\ best_children(ns, ns[r]) # NoMove

\* the value the key early_c has when the key is not given
Absent == -1

\* MCTS_agent constructor, lines 134-144: the test of the key early_c comes
\* after the test of the key early and assigns if_early on both branches
IfEarly(keys) ==
    LET after_early == IF keys.early THEN TRUE ELSE FALSE
    IN  IF keys.early_c # Absent THEN TRUE ELSE FALSE

\* MCTS_agent constructor, lines 108 and 139-141: earlyc_p, in hundredths
EarlycP(keys) == IF keys.early_c # Absent THEN keys.early_c ELSE 0

\* thinking_time - cost, line 712
TimeLeft(tt, cost) == [num |-> tt.num - (cost * tt.den), den |-> tt.den]

\* lines 617-626: most - margin >= second, the margin being EARLY_T * Width
\* or tt * simcount_lastturn * earlyc_p * Width with the lead count s
EarlyMargin(most, second, tt, s) ==
    IF earlyc_p = 0
    THEN most - (EARLY_T * Width) >= second
    ELSE (most - second) * tt.den * 100 >= tt.num * s * earlyc_p * Width

\* MCTS_player::early(node, thinking_time), lines 598-628, on node n
early(ns, n, tt, s) ==
    LET space == Space(who)
        RECURSIVE Iter(_, _, _, _)
        Iter(k, most, second, most_a) ==
            IF k > Len(space)
            THEN IF EarlyMargin(most, second, tt, s) THEN most_a ELSE NoMove
            ELSE IF has_child(n, space[k])
            THEN LET count == ns[n.children[space[k]]].visit_count
                 IN  IF count > most THEN Iter(k + 1, count, most, space[k])
                     ELSE IF count > second THEN Iter(k + 1, most, count, most_a)
                     ELSE Iter(k + 1, most, second, most_a)
            ELSE Iter(k + 1, most, second, most_a)
    IN  Iter(1, 0, 0, NoMove)

\* lines 711-715: the test made after a selection of the simulation loop
EarlyBreak(ns) ==
    /\ earlyc_p # 0
    /\ turn > 2
    /\ early(ns, ns[root], TimeLeft(thinking_time, elapsed), simcount_lastturn) # NoMove

\* the values an int that was never assigned, or was converted from a
\* quotient by zero, may hold
UninitInts == {0, 1}

\* line 697: simcount_lastturn = (double)i / thinking_time, truncated
LastTurnRates(k, tt) ==
    IF tt.num > 0 THEN {(k * tt.den) \div tt.num} ELSE UninitInts

Step(op, path, created, result, mv) ==
    [op |-> op, path |-> path, created |-> created, result |-> result, mv |-> mv]

NoExp == [path |-> << >>, tip |-> 0, child |-> 0, best_move |-> NoMove,
          best_after |-> InitBoard, first |-> NoMove, k |-> 0]

\* no call of rollout is being run step by step
RoIdle == [pc |-> "idle", state |-> InitBoard, rollout |-> InitBoard,
           empty |-> << >>, i |-> 0, n |-> 0, outcome |-> 0]

\* the game driver stops asking after this many calls
CallLimit ==
    IF use_time_management THEN TimedCalls
    ELSE IF leaf_parallel # 0 THEN ParCalls
    ELSE IF sim_count = LongSimCount THEN LongCalls
    ELSE MaxCalls

\* the first board a game hands to this agent
FirstBoards ==
    IF who = black THEN {InitBoard}
    ELSE {After(InitBoard, Place(p, black)) : p \in LegalMoves(InitBoard, black)}

InitCommon ==
    /\ who \in {black, white}
    /\ nodes = [j \in {1} |-> NewNode(who, NoMove)]
    /\ root = 1
    /\ last_board = InitBoard
    /\ turn = 0
    /\ remaining_time = INIT_TIME
    /\ state = InitBoard
    /\ pc = "env"
    /\ i = 0
    /\ move = NoMove
    /\ ret = NoMove
    /\ calls = 0
    /\ last = Step("init", << >>, 0, 0, NoMove)
    /\ threads = [t \in 1 .. Workers |-> "idle"]
    /\ outcome = [t \in 1 .. Workers |-> 0]
    /\ mu = 0
    /\ simulation_results = << >>
    /\ engine_users = {}
    /\ exp = NoExp
    /\ ro = RoIdle
    /\ thinking_time = NoTime
    /\ elapsed = 0
    /\ start2 = 0
    /\ unst_N_thisstep = 0

\* MCTS_agent constructor, lines 107-108 and 134-144, neither key given;
\* nothing then reads simcount_lastturn
EarlyOff ==
    /\ early_key = FALSE
    /\ if_early = FALSE
    /\ earlyc_p = 0
    /\ simcount_lastturn = 0

\* fixed-simulation mode (key fix_sim), single-threaded or with p_leaf = Workers
Init ==
    /\ InitCommon
    /\ EarlyOff
    /\ leaf_parallel \in {0, Workers}
    /\ sim_count = IF leaf_parallel = 0 THEN SimCount ELSE ParSimCount
    /\ exploration_w = C_HUNDREDTHS
    /\ use_time_management = FALSE
    /\ basic_const = BASIC_C
    /\ enhanced_peak = 0
    /\ unst_N = 0

\* the game driver starts a new game and asks this agent for its first move
EnvNewGame ==
    /\ pc = "env"
    /\ calls < CallLimit
    /\ \E b \in FirstBoards : state' = b
    /\ pc' = "call"
    /\ last' = Step("newgame", << >>, 0, 0, NoMove)
    /\ UNCHANGED <<cfgVars, ro, simcount_lastturn, timeVars, treeVars, parVars, last_board, turn, remaining_time,
                   i, move, ret, calls>>

\* the opponent answers the move this agent returned
EnvOpponentMove ==
    /\ pc = "env"
    /\ calls < CallLimit
    /\ ret # NoMove
    /\ \E p \in LegalMoves(state, oppo) :
          /\ state' = After(state, Place(p, oppo))
          /\ last' = Step("oppo", << >>, 0, 0, Place(p, oppo))
    /\ pc' = "call"
    /\ UNCHANGED <<cfgVars, ro, simcount_lastturn, timeVars, treeVars, parVars, last_board, turn, remaining_time,
                   i, move, ret, calls>>

\* mcts_take_action, lines 646-690: up to the start of the simulation loop
TakeActionStart ==
    /\ pc = "call"
    /\ \E rec \in {Reconcile(nodes, root, turn, remaining_time, last_board, state)} :
           /\ nodes' = rec.tree.nodes
           /\ root' = rec.tree.root
           /\ turn' = rec.turn + 1
           /\ remaining_time' = rec.remaining_time
           /\ pc' = IF rec.tree.nodes[rec.tree.root].role # who THEN "fatal"
                    ELSE IF if_early
                            /\ early(rec.tree.nodes, rec.tree.nodes[rec.tree.root],
                                     ThinkingTime(remaining_time, turn),
                                     simcount_lastturn) # NoMove
                    THEN "end"
                    ELSE LoopPc(0)
           /\ last' = Step(IF turn = 0 THEN "fresh"
                           ELSE IF rec.oppo_mv = NoMove THEN "miss" ELSE "reconciled",
                           << >>, 0, 0, rec.oppo_mv)
    /\ thinking_time' = IF use_time_management \/ if_early
                        THEN ThinkingTime(remaining_time, turn)
                        ELSE NoTime
    /\ elapsed' = 0
    /\ start2' = 0
    /\ unst_N_thisstep' = unst_N
    /\ i' = 0
    /\ move' = NoMove
    /\ calls' = calls + 1
    /\ UNCHANGED <<cfgVars, ro, simcount_lastturn, parVars, last_board, state, ret>>

\* one pass of the simulation loop, lines 692-718, the rollout done in place
SimCycle ==
    /\ pc = "loop"
    /\ IF TimeIsUp(elapsed, thinking_time)
       THEN /\ pc' = "end"
            /\ IF earlyc_p # 0
               THEN \E v \in LastTurnRates(i, thinking_time) : simcount_lastturn' = v
               ELSE UNCHANGED simcount_lastturn
            /\ last' = Step("timeup", << >>, 0, 0, NoMove)
            /\ UNCHANGED <<nodes, i, move, elapsed>>
       ELSE IF nodes[root].is_leaf
       THEN /\ move' = NoMove
            /\ pc' = "end"
            /\ last' = Step("break", << >>, 0, 0, NoMove)
            /\ UNCHANGED <<nodes, i, elapsed, simcount_lastturn>>
       ELSE \E d \in {Descend(nodes, state, root)} :
                /\ d.terminal \/ leaf_parallel = 0
                /\ \E r \in (IF d.terminal THEN {0} ELSE rollout(d.best_after)) :
                      \E s \in {selection(nodes, d, r)} :
                          /\ nodes' = s.nodes
                          /\ move' = s.first
                          /\ last' = Step("cycle", s.path, s.created, s.result, s.first)
                          /\ IF EarlyBreak(s.nodes)
                             THEN i' = i /\ pc' = "end"
                             ELSE i' = i + 1 /\ pc' = LoopPc(i + 1)
                /\ \E c \in CycleCosts : elapsed' = elapsed + c
                /\ UNCHANGED simcount_lastturn
    /\ UNCHANGED <<cfgVars, ro, parVars, root, last_board, turn, remaining_time, state,
                   ret, calls, thinking_time, start2, unst_N_thisstep>>

\* lines 721-724: while(unst_N_thisstep-- && is_unstable(move)), entering
\* one more burst of simulations
UnstableCheck ==
    /\ pc = "end"
    /\ unst_N_thisstep > 0
    /\ is_unstable(nodes, root)
    /\ unst_N_thisstep' = unst_N_thisstep - 1
    /\ start2' = elapsed
    /\ move' = best_children(nodes, nodes[root])
    /\ i' = 0
    /\ pc' = BurstPc(0)
    /\ last' = Step("unstable", << >>, 0, 0, best_children(nodes, nodes[root]))
    /\ UNCHANGED <<cfgVars, ro, simcount_lastturn, parVars, treeVars, last_board, turn, remaining_time,
                   state, ret, calls, thinking_time, elapsed>>

\* one pass of the loop of a burst, lines 726-741, without rollout workers
BurstCycle ==
    /\ pc = "burst"
    /\ leaf_parallel = 0
    /\ IF HalfTimeIsUp(elapsed - start2, thinking_time)
       THEN /\ pc' = "end"
            /\ simcount_lastturn' = IF earlyc_p # 0 THEN simcount_lastturn + i
                                    ELSE simcount_lastturn
            /\ last' = Step("timeup", << >>, 0, 0, NoMove)
            /\ UNCHANGED <<nodes, i, move, elapsed>>
       ELSE IF nodes[root].is_leaf
       THEN /\ move' = NoMove
            /\ pc' = "end"
            /\ last' = Step("break", << >>, 0, 0, NoMove)
            /\ UNCHANGED <<nodes, i, elapsed, simcount_lastturn>>
       ELSE \E d \in {Descend(nodes, state, root)} :
                /\ \E r \in (IF d.terminal THEN {0} ELSE rollout(d.best_after)) :
                      \E s \in {selection(nodes, d, r)} :
                          /\ nodes' = s.nodes
                          /\ move' = s.first
                          /\ last' = Step("cycle", s.path, s.created, s.result, s.first)
                /\ \E c \in CycleCosts : elapsed' = elapsed + c
                /\ i' = i + 1
                /\ pc' = BurstPc(i + 1)
                /\ UNCHANGED simcount_lastturn
    /\ UNCHANGED <<cfgVars, ro, parVars, root, last_board, turn, remaining_time, state,
                   ret, calls, thinking_time, start2, unst_N_thisstep>>

\* the move committed without the test of line 760
AppliesUnchecked(st, mv) == TRUE

\* mcts_take_action, line 760: move.apply(after) == board::legal
Applies(st, mv) == Legal(st, mv)

\* mcts_take_action, lines 719-769: choose, advance the root, commit, return;
\* the game driver then plays the returned move on its board
Finish ==
    /\ pc = "end"
    /\ unst_N_thisstep = 0 \/ ~is_unstable(nodes, root)
    /\ \E mv \in {best_children(nodes, nodes[root])} :
       \E tr \in {move_root(nodes, root, mv)} :
           /\ nodes' = tr.nodes
           /\ root' = tr.root
           /\ move' = mv
           /\ last' = Step("finish", << >>, 0, 0, mv)
           /\ IF Applies(state, mv)
              THEN /\ last_board' = After(state, mv)
                   /\ \E cost \in ReturnCosts : remaining_time' = remaining_time - cost
                   /\ ret' = mv
                   /\ state' = After(state, mv)
              ELSE /\ ret' = NoMove
                   /\ UNCHANGED <<last_board, remaining_time, state>>
    /\ pc' = "env"
    /\ thinking_time' = NoTime
    /\ elapsed' = 0
    /\ start2' = 0
    /\ unst_N_thisstep' = 0
    /\ UNCHANGED <<cfgVars, ro, simcount_lastturn, parVars, turn, i, calls>>

(***************************************************************************)
(* Leaf-parallel expansion: selection lines 533-563, rollout lines 454-480  *)
(***************************************************************************)
RECURSIVE SumSeq(_)
SumSeq(q) == IF q = << >> THEN 0 ELSE Head(q) + SumSeq(Tail(q))

\* selection, lines 518-533 with leaf_parallel set: descend, create the child
ParExpand ==
    /\ pc = "loop"
    /\ leaf_parallel # 0
    /\ ~TimeIsUp(elapsed, thinking_time)
    /\ ~nodes[root].is_leaf
    /\ \E d \in {Descend(nodes, state, root)} :
          /\ ~d.terminal
          /\ \E tip \in {d.path[Len(d.path)]} :
             \E grown \in {new_child(nodes, tip, ChildRole(nodes[tip]), d.best_move)} :
                /\ nodes' = grown
                /\ exp' = [path |-> d.path, tip |-> tip,
                           child |-> grown[tip].children[d.best_move],
                           best_move |-> d.best_move, best_after |-> d.best_after,
                           first |-> d.first, k |-> 0]
                /\ last' = Step("expand", d.path, grown[tip].children[d.best_move],
                                0, d.first)
    /\ pc' = "spawn"
    /\ outcome' = [t \in DOMAIN outcome |-> 0]
    /\ UNCHANGED <<cfgVars, ro, simcount_lastturn, timeVars, root, last_board, turn, remaining_time, state,
                   i, move, ret, calls, threads, mu, simulation_results,
                   engine_users>>

\* lines 536-540: threads[thread_c] = std::thread(&rollout, this, best_after)
SpawnThread ==
    /\ pc = "spawn"
    /\ threads' = [threads EXCEPT ![exp.k + 1] = "start"]
    /\ IF exp.k + 1 = leaf_parallel
       THEN pc' = "join" /\ exp' = [exp EXCEPT !.k = 0]
       ELSE pc' = "spawn" /\ exp' = [exp EXCEPT !.k = @ + 1]
    /\ UNCHANGED <<cfgVars, ro, simcount_lastturn, timeVars, treeVars, last_board, turn, remaining_time, state, i,
                   move, ret, calls, last, outcome, mu, simulation_results,
                   engine_users>>

\* rollout, lines 455-459: the worker enters std::shuffle(..., engine)
RolloutShuffle(t) ==
    /\ threads[t] = "start"
    /\ threads' = [threads EXCEPT ![t] = "shuffle"]
    /\ engine_users' = engine_users \cup {t}
    /\ UNCHANGED <<cfgVars, ro, simcount_lastturn, timeVars, treeVars, last_board, turn, remaining_time, state, pc,
                   i, move, ret, calls, last, outcome, mu, simulation_results, exp>>

\* rollout, lines 459-474: the shuffle returns, the copy of the board is
\* played out and the outcome computed
RolloutPlay(t) ==
    /\ threads[t] = "shuffle"
    /\ threads' = [threads EXCEPT ![t] = "lock"]
    /\ engine_users' = engine_users \ {t}
    /\ \E o \in rollout(exp.best_after) : outcome' = [outcome EXCEPT ![t] = o]
    /\ UNCHANGED <<cfgVars, ro, simcount_lastturn, timeVars, treeVars, last_board, turn, remaining_time, state, pc,
                   i, move, ret, calls, last, mu, simulation_results, exp>>

\* rollout, line 475: mu.lock()
RolloutLock(t) ==
    /\ threads[t] = "lock"
    /\ mu = 0
    /\ mu' = t
    /\ threads' = [threads EXCEPT ![t] = "push"]
    /\ UNCHANGED <<cfgVars, ro, simcount_lastturn, timeVars, treeVars, last_board, turn, remaining_time, state, pc,
                   i, move, ret, calls, last, outcome, simulation_results,
                   engine_users, exp>>

\* rollout, lines 476-477: if(leaf_parallel) simulation_results.push(outcome)
RolloutPush(t) ==
    /\ threads[t] = "push"
    /\ threads' = [threads EXCEPT ![t] = "unlock"]
    /\ simulation_results' = IF leaf_parallel # 0
                             THEN Append(simulation_results, outcome[t])
                             ELSE simulation_results
    /\ UNCHANGED <<cfgVars, ro, simcount_lastturn, timeVars, treeVars, last_board, turn, remaining_time, state, pc,
                   i, move, ret, calls, last, outcome, mu, engine_users, exp>>

\* rollout, lines 478-479: mu.unlock(); return outcome
RolloutUnlock(t) ==
    /\ threads[t] = "unlock"
    /\ mu' = 0
    /\ threads' = [threads EXCEPT ![t] = "done"]
    /\ UNCHANGED <<cfgVars, ro, simcount_lastturn, timeVars, treeVars, last_board, turn, remaining_time, state, pc,
                   i, move, ret, calls, last, outcome, simulation_results,
                   engine_users, exp>>

\* a join that returns without waiting for the thread
JoinableAtOnce(t) == TRUE

\* std::thread::join returns once the thread has finished
Joinable(t) == threads[t] = "done"

\* lines 542-544: threads[thread_c].join()
JoinThread ==
    /\ pc = "join"
    /\ Joinable(exp.k + 1)
    /\ threads' = [threads EXCEPT ![exp.k + 1] =
                      IF @ = "done" THEN "idle" ELSE @]
    /\ IF exp.k + 1 = leaf_parallel
       THEN pc' = "drain" /\ exp' = [exp EXCEPT !.k = 0]
       ELSE pc' = "join" /\ exp' = [exp EXCEPT !.k = @ + 1]
    /\ UNCHANGED <<cfgVars, ro, simcount_lastturn, timeVars, treeVars, last_board, turn, remaining_time, state, i,
                   move, ret, calls, last, outcome, mu, simulation_results,
                   engine_users>>

\* lines 546-549: the results waiting in the queue are summed and popped
DrainQueue(q) == [result |-> SumSeq(q), queue |-> << >>]

\* lines 546-564 and the end of the loop pass: sum the queue, record the visit
\* on the new child and on every node the call returns through
Drain ==
    /\ pc = "drain"
    /\ \E dq \in {DrainQueue(simulation_results)} :
          /\ simulation_results' = dq.queue
          /\ nodes' = Backprop(RecordExpansion(nodes, exp.tip, exp.best_move, dq.result),
                               exp.path, Len(exp.path) - 1, dq.result)
          /\ last' = Step("cycle", exp.path, exp.child, dq.result, exp.first)
    /\ move' = exp.first
    /\ \E c \in CycleCosts : elapsed' = elapsed + c
    /\ IF EarlyBreak(nodes')
       THEN i' = i /\ pc' = "end"
       ELSE i' = i + 1 /\ pc' = LoopPc(i + 1)
    /\ exp' = NoExp
    /\ UNCHANGED <<cfgVars, ro, simcount_lastturn, root, last_board, turn, remaining_time, state, ret,
                   calls, threads, outcome, mu, engine_users, thinking_time, start2,
                   unst_N_thisstep>>

NextSeq ==
    \/ EnvNewGame
    \/ EnvOpponentMove
    \/ TakeActionStart
    \/ SimCycle
    \/ Finish

Next ==
    \/ EnvNewGame
    \/ EnvOpponentMove
    \/ TakeActionStart
    \/ SimCycle
    \/ ParExpand
    \/ SpawnThread
    \/ \E t \in 1 .. Workers : RolloutShuffle(t)
    \/ \E t \in 1 .. Workers : RolloutPlay(t)
    \/ \E t \in 1 .. Workers : RolloutLock(t)
    \/ \E t \in 1 .. Workers : RolloutPush(t)
    \/ \E t \in 1 .. Workers : RolloutUnlock(t)
    \/ JoinThread
    \/ Drain
    \/ Finish

Spec == Init /\ [][Next]_vars

\* single-threaded fixed-simulation mode with the exploration weight set by
\* the key C
ExplorationWeights == {0, C_HUNDREDTHS, 200000}

InitExp ==
    /\ InitCommon
    /\ EarlyOff
    /\ leaf_parallel = 0
    /\ sim_count = SimCount
    /\ exploration_w \in ExplorationWeights
    /\ use_time_management = FALSE
    /\ basic_const = BASIC_C
    /\ enhanced_peak = 0
    /\ unst_N = 0

SpecExp == InitExp /\ [][NextSeq]_vars

\* single-threaded fixed-simulation mode with a long search (key fix_sim)
InitLong ==
    /\ InitCommon
    /\ EarlyOff
    /\ leaf_parallel = 0
    /\ sim_count = LongSimCount
    /\ exploration_w = C_HUNDREDTHS
    /\ use_time_management = FALSE
    /\ basic_const = BASIC_C
    /\ enhanced_peak = 0
    /\ unst_N = 0

SpecLong == InitLong /\ [][NextSeq]_vars

\* the values of the keys basic_f and enhanced_f: [basic_const, enhanced_peak]
TimedKeys == {<<100, 0>>, <<BASIC_C, 70>>}

\* single-threaded time-managed mode (key basic_f or enhanced_f), with or
\* without one stability retry (key unst)
InitTime ==
    /\ InitCommon
    /\ EarlyOff
    /\ leaf_parallel = 0
    /\ sim_count = TIMED_SIM_COUNT
    /\ exploration_w = C_HUNDREDTHS
    /\ use_time_management = TRUE
    /\ \E k \in TimedKeys : basic_const = k[1] /\ enhanced_peak = k[2]
    /\ unst_N \in {0, 1}

NextTime ==
    \/ EnvNewGame
    \/ EnvOpponentMove
    \/ TakeActionStart
    \/ SimCycle
    \/ UnstableCheck
    \/ BurstCycle
    \/ Finish

SpecTime == InitTime /\ [][NextTime]_vars

(***************************************************************************)
(* Properties                                                               *)
(***************************************************************************)
\* a simulation cycle ends in this step: the loop counter advances
CycleEnds == i' = i + 1

\* the nodes the cycle that ends in this step has entered or created
OnCycle(j) == InPath(last'.path, j) \/ j = last'.created

\* C1: the visit_count of every node grows by max(1, leaf_parallel) in each
\* simulation cycle whose descent enters the node (also when the descent ends
\* at it as a terminal leaf), changes in no other step, and never decreases; a
\* node made in a step starts at 0, or at the width if the cycle that made it
\* ends in that step.
C1_VisitConservation ==
    [][
        /\ \A id \in (DOMAIN nodes) \cap (DOMAIN nodes') :
             /\ nodes'[id].visit_count >= nodes[id].visit_count
             /\ nodes'[id].visit_count =
                   nodes[id].visit_count
                     + (IF CycleEnds /\ OnCycle(id) THEN Max(1, leaf_parallel) ELSE 0)
        /\ \A k \in (DOMAIN nodes') \ (DOMAIN nodes) :
             nodes'[k].visit_count =
                (IF CycleEnds /\ OnCycle(k) THEN Max(1, leaf_parallel) ELSE 0)
      ]_vars

\* a leaf-parallel cycle has descended through an old child of the root
\* into a node that it found to have no legal move
C1_Witness ==
    /\ last.op = "cycle"
    /\ leaf_parallel > 1
    /\ Len(last.path) >= 2
    /\ last.created = 0
    /\ nodes[last.path[1]].visit_count >= 2 * leaf_parallel

\* this step is a call of tree::move_root with the move last'.mv
MovesRoot ==
    \/ pc = "end" /\ pc' = "env"
    \/ pc = "call" /\ last'.op = "reconciled"

\* C2: move_root(m) on a root with a child for m makes that child the root and
\* leaves every node of its subtree as it was; on a root without a child for
\* m the new root is a new node with visit_count 0, wincount 0, no children.
C2_MoveRoot ==
    [][MovesRoot =>
         IF has_child(nodes[root], last'.mv)
         THEN /\ root' = nodes[root].children[last'.mv]
              /\ \A id \in Subtree(nodes, root') :
                    id \in DOMAIN nodes' /\ nodes'[id] = nodes[id]
         ELSE /\ root' \notin DOMAIN nodes
              /\ nodes'[root'].visit_count = 0
              /\ nodes'[root'].wincount = 0
              /\ ~nodes'[root'].is_leaf
              /\ DOMAIN nodes'[root'].children = {}
      ]_vars

\* the root has been advanced into a child that already had children
C2_Witness ==
    /\ last.op = "finish"
    /\ nodes[root].visit_count >= 2
    /\ DOMAIN nodes[root].children # {}

\* the legal opponent moves that turn last_board into the observed board
OppoMovesSeen ==
    {p \in Cells : Legal(last_board, Place(p, oppo))
                      /\ After(last_board, Place(p, oppo)) = state}

\* C3: on a turn with turn > 0 where the observed board is last_board with a
\* legal opponent move m applied, the start of the turn advances the root to
\* the child keyed by m, making exactly that one node when the child is
\* absent, and resets neither the tree nor the turn counter nor the time.
C3_Reconciliation ==
    [][(pc = "call" /\ turn > 0 /\ OppoMovesSeen # {}) =>
         \A p \in OppoMovesSeen :
            /\ nodes'[root'].move = Place(p, oppo)
            /\ IF has_child(nodes[root], Place(p, oppo))
               THEN /\ root' = nodes[root].children[Place(p, oppo)]
                    /\ DOMAIN nodes' = Subtree(nodes, root')
                    /\ \A id \in DOMAIN nodes' : nodes'[id] = nodes[id]
               ELSE /\ root' \notin DOMAIN nodes
                    /\ DOMAIN nodes' = {root'}
                    /\ nodes'[root'].role = Other(nodes[root].role)
            /\ turn' = turn + 1
            /\ remaining_time' = remaining_time
      ]_vars

\* an opponent move has been reconciled into a child the search had visited,
\* with part of the time budget spent
C3_Witness ==
    /\ last.op = "reconciled"
    /\ turn >= 2
    /\ remaining_time < INIT_TIME
    /\ nodes[root].visit_count > 0

\* C4: the fatal exit of the role check is never taken, and while a turn is
\* searching the root's role is this agent's role.
C4_RootRole ==
    /\ pc # "fatal"
    /\ pc \in {"loop", "spawn", "join", "drain", "end"} => nodes[root].role = who

\* a search runs on the turn after one that returned the empty move
C4_Witness ==
    /\ pc = "loop"
    /\ calls >= 2
    /\ ret = NoMove
    /\ nodes[root].role = who

\* C5: take_action returns the empty move or a placement by this agent that is
\* legal on the board it was given, and last_board becomes that board with
\* the move applied exactly when the returned move is not the empty move.
C5_LegalReturn ==
    [][(pc = "end" /\ pc' = "env") =>
         \/ ret' = NoMove /\ last_board' = last_board
         \/ /\ ret' # NoMove
            /\ ret'.who = who
            /\ Legal(state, ret')
            /\ last_board' = After(state, ret')
      ]_vars

\* a turn has returned a move and committed the board
C5_Witness ==
    /\ last.op = "finish"
    /\ ret # NoMove
    /\ last_board = state
    /\ turn >= 2

\* the visits recorded on the nodes of the set S
RECURSIVE SumVisits(_, _)
SumVisits(ns, S) ==
    IF S = {} THEN 0
    ELSE LET id == CHOOSE x \in S : TRUE
         IN  ns[id].visit_count + SumVisits(ns, S \ {id})

\* the children of node id
ChildrenOf(ns, id) == {ns[id].children[m] : m \in DOMAIN ns[id].children}

\* C6: in fixed-simulation mode a turn whose root is not a terminal leaf
\* leaves the search loop after exactly sim_count cycles, and on a fresh game
\* the visit counts of the root's children then add up to
\* sim_count * max(1, leaf_parallel).
C6_FixedSimCount ==
    (pc = "end" /\ ~nodes[root].is_leaf) =>
        /\ i = sim_count
        /\ turn = 1 =>
              SumVisits(nodes, ChildrenOf(nodes, root)) = sim_count * Width

\* the search loop of the first turn of a game has ended in leaf-parallel mode
C6_Witness ==
    /\ pc = "end"
    /\ ~nodes[root].is_leaf
    /\ turn = 1
    /\ leaf_parallel > 1
    /\ Cardinality(ChildrenOf(nodes, root)) >= 2

\* this agent has no legal move on the board it is asked to move on
NoLegalMove == LegalMoves(state, who) = {}

\* C7: a call on a board where this agent has no legal move does not take the
\* fatal exit, makes no node in its search loop, which it leaves for the final
\* choice, and returns the empty move, leaving the board as it is.
C7_NoMoveSentinel ==
    [][(pc \in {"call", "loop", "end"} /\ NoLegalMove) =>
         /\ pc = "call" => pc' # "fatal"
         /\ pc = "loop" => pc' \in {"loop", "end"} /\ DOMAIN nodes' = DOMAIN nodes
         /\ pc = "end" => pc' = "env" /\ ret' = NoMove /\ state' = state
      ]_vars

\* a turn later than the first of its game, started from a reconciled
\* opponent move, has returned the empty move on a board without a legal move
C7_Witness ==
    /\ last.op = "finish"
    /\ ret = NoMove
    /\ NoLegalMove
    /\ turn >= 2
    /\ nodes[root].move = NoMove

\* the outcomes the workers of the running expansion have computed
OutcomeSum == SumSeq([t \in 1 .. leaf_parallel |-> outcome[t]])

\* C9: in a leaf-parallel expansion the child exists, still unvisited, from the
\* start of the first worker on; exactly leaf_parallel workers run; the queue
\* is read only when all of them are joined, and it then holds exactly their
\* outcomes; the step that reads it records, on the child and on its parent,
\* one visit of width leaf_parallel with the sum of those outcomes, and
\* leaves the queue empty.
C9_LeafParallelStep ==
    /\ [](pc \in {"spawn", "join", "drain"} =>
            /\ has_child(nodes[exp.tip], exp.best_move)
            /\ nodes[exp.tip].children[exp.best_move] = exp.child
            /\ nodes[exp.child].visit_count = 0)
    /\ []((\E t \in 1 .. Workers : threads[t] # "idle") =>
            pc \in {"spawn", "join"})
    /\ [](pc = "join" =>
            \A t \in 1 .. Workers :
               (threads[t] # "idle") = (exp.k < t /\ t <= leaf_parallel))
    /\ [](pc = "drain" =>
            /\ \A t \in 1 .. Workers : threads[t] = "idle"
            /\ Len(simulation_results) = leaf_parallel
            /\ SumSeq(simulation_results) = OutcomeSum)
    /\ [][pc = "drain" =>
            /\ nodes'[exp.child].visit_count = leaf_parallel
            /\ nodes'[exp.child].wincount = OutcomeSum
            /\ nodes'[exp.tip].visit_count = nodes[exp.tip].visit_count + leaf_parallel
            /\ nodes'[exp.tip].wincount = nodes[exp.tip].wincount + OutcomeSum
            /\ simulation_results' = << >>
         ]_vars

\* an expansion below the root has recorded the won outcomes of its workers
\* on the new child and on a parent that had been visited before
C9_Witness ==
    /\ last.op = "cycle"
    /\ leaf_parallel > 1
    /\ last.created # 0
    /\ Len(last.path) >= 2
    /\ last.result > 0
    /\ nodes[last.created].visit_count = leaf_parallel
    /\ nodes[last.created].wincount = last.result
    /\ nodes[last.path[Len(last.path)]].visit_count >= 2 * leaf_parallel
    /\ simulation_results = << >>

\* C10: a worker touches the random engine or the result queue only while it
\* holds the mutex, so that no two workers are ever inside the same shared
\* object at once.
C10_WorkersGuarded ==
    /\ \A t \in 1 .. Workers : threads[t] = "push" => mu = t
    /\ \A t \in engine_users : mu = t
    /\ Cardinality(engine_users) <= 1

\* the board at the k-th node of a descent that started from the board b
RECURSIVE BoardOnPath(_, _, _, _)
BoardOnPath(ns, b, path, k) ==
    IF k <= 1 THEN b
    ELSE After(BoardOnPath(ns, b, path, k - 1), ns[path[k]].move)

\* the child for mv at node n is a terminal leaf whose outcome is a win
WonLeaf(ns, n, mv) ==
    /\ has_child(n, mv)
    /\ ns[n.children[mv]].is_leaf
    /\ ns[n.children[mv]].wincount > 0

\* the child for mv at node n is missing or is no terminal leaf
OpenMove(ns, n, mv) == has_child(n, mv) => ~ns[n.children[mv]].is_leaf

\* C8: at every node a descent has entered, the move to a child marked as a
\* terminal leaf won by this agent scores strictly above every other legal
\* move of the node whose child is no terminal leaf or does not exist yet.
C8_TerminalDominance ==
    (last.op = "cycle" /\ pc \in {"loop", "end"}) =>
        \A k \in 1 .. Len(last.path) :
            LET n == nodes[last.path[k]]
                b == BoardOnPath(nodes, state, last.path, k)
            IN  \A p \in LegalMoves(b, n.role) : \A q \in LegalMoves(b, n.role) :
                   (WonLeaf(nodes, n, Place(p, n.role))
                        /\ OpenMove(nodes, n, Place(q, n.role))) =>
                      UCB_score(nodes, n, Place(p, n.role), who)
                         > UCB_score(nodes, n, Place(q, n.role), who)

\* the bursts of the stability loop started so far in the running call
BurstsStarted == unst_N - unst_N_thisstep

\* C11 (original): in time-managed mode the time spent simulating in one turn
\* stays below thinking_time plus the cost of one simulation cycle.
C11_OneCycleOver ==
    (use_time_management /\ pc \in {"loop", "burst", "end"}) =>
        (elapsed - MaxCycleCost) * thinking_time.den < thinking_time.num

\* C11 (amended): in time-managed mode the clock moves only in steps that
\* complete a whole simulation cycle; a cycle of the main loop starts only
\* while the elapsed time is below thinking_time, and a cycle of a stability
\* burst only while the time since the start of the burst is below half of
\* thinking_time; so the time spent simulating stays below thinking_time plus
\* one cycle, plus half of thinking_time and one cycle for every burst.
C11_BudgetBound ==
    /\ []((use_time_management /\ pc \in {"loop", "burst", "end"}) =>
            2 * thinking_time.den * (elapsed - ((BurstsStarted + 1) * MaxCycleCost))
               < thinking_time.num * (2 + BurstsStarted))
    /\ [][use_time_management =>
            /\ (elapsed' # elapsed /\ pc' # "env") =>
                  /\ i' = i + 1
                  /\ elapsed' > elapsed
                  /\ elapsed' <= elapsed + MaxCycleCost
            /\ (i' = i + 1 /\ pc = "loop") =>
                  elapsed * thinking_time.den < thinking_time.num
            /\ (i' = i + 1 /\ pc = "burst") =>
                  (elapsed - start2) * 2 * thinking_time.den < thinking_time.num
         ]_vars

\* the main loop of a turn without stability retries has stopped on the
\* clock, its last cycle having run past thinking_time
C11_Witness ==
    /\ use_time_management
    /\ unst_N = 0
    /\ pc = "end"
    /\ last.op = "timeup"
    /\ i >= 2
    /\ elapsed * thinking_time.den > thinking_time.num

\* the thinking time a turn with turn = 0 uses: the whole budget over the
\* divisor of the first turn
FreshThinkingTime == ThinkingTime(INIT_TIME, 0)

\* C12: a turn whose reconciliation finds no opponent move does what a turn
\* with turn = 0 does on that board: it is no fatal exit, the tree becomes one
\* childless root of this agent's role, the time budget is INIT_TIME again, the
\* turn counter is 1, and the thinking time of the turn is the one of a turn
\* with turn = 0.
C12_MissIsFresh ==
    [][(pc = "call" /\ last'.op = "miss") =>
         /\ pc' # "fatal"
         /\ DOMAIN nodes' = {root'}
         /\ nodes'[root'] = NewNode(who, NoMove)
         /\ remaining_time' = INIT_TIME
         /\ turn' = 1
         /\ thinking_time'.num * FreshThinkingTime.den
               = FreshThinkingTime.num * thinking_time'.den
      ]_vars

\* the parts of C12 that concern the tree, the budget and the turn counter
C12_MissResets ==
    [][(pc = "call" /\ last'.op = "miss") =>
         /\ pc' # "fatal"
         /\ DOMAIN nodes' = {root'}
         /\ nodes'[root'] = NewNode(who, NoMove)
         /\ remaining_time' = INIT_TIME
         /\ turn' = 1
      ]_vars

\* position of the key m in the iteration order of the children map
KeyIndex(vs, m) == CHOOSE k \in 1 .. Len(KeyOrder(vs)) : KeyOrder(vs)[k] = m

\* C13: the move chosen at the end of a turn is the empty move exactly when
\* the root has no children; otherwise it is a key of the root's children
\* whose child has the greatest visit_count, the last such key in the order
\* of the children map, whatever the win rates are; it is the move returned.
C13_MostVisited ==
    [][(pc = "end" /\ pc' = "env") =>
         LET kids == DOMAIN nodes[root].children
             count(m) == nodes[nodes[root].children[m]].visit_count
         IN  /\ (move' = NoMove) = (kids = {})
             /\ kids # {} =>
                  /\ move' \in kids
                  /\ \A m \in kids : count(m) <= count(move')
                  /\ \A m \in kids :
                        count(m) = count(move') =>
                           KeyIndex(kids, m) <= KeyIndex(kids, move')
                  /\ root' = nodes[root].children[move']
             /\ ret' = move'
      ]_vars

\* the turn has committed a child visited more than once that never won
C13_Witness ==
    /\ last.op = "finish"
    /\ ret # NoMove
    /\ nodes[root].move = ret
    /\ nodes[root].visit_count >= 2
    /\ nodes[root].wincount = 0

\* the children of node n that UCB_score scores by the formula of line 364
Scored(ns, n) ==
    {mv \in DOMAIN n.children :
        /\ ~ns[n.children[mv]].is_leaf
        /\ ns[n.children[mv]].visit_count > 0
        /\ n.visit_count > 0}

\* the value of sign * wincount / visit_count + C * sqrt(ln(N) / visit_count)
\* for the child chld of a node visited N times, in units of 1/SCALE, the
\* square root being checked by its squares
UCBValue(sign, chld, N, score) ==
    LET x == LnTab[N] \div chld.visit_count
        r == SqrtLogOver(N, chld.visit_count)
    IN  /\ r >= 0 /\ r * r <= x /\ x < (r + 1) * (r + 1)
        /\ score = ((sign * chld.wincount * SCALE) \div chld.visit_count)
                      + ((exploration_w * r) \div 100)

\* C14 (original): the score of a move with a visited child that is no
\* terminal leaf carries the sign +1 exactly when the role of the child,
\* the side to move after the move, is the perspective role.
C14_SignOfChildRole ==
    \A id \in DOMAIN nodes : \A mv \in Scored(nodes, nodes[id]) :
        LET chld == nodes[nodes[id].children[mv]]
        IN  UCBValue(IF chld.role = who THEN 1 ELSE -1, chld,
                     nodes[id].visit_count, UCB_score(nodes, nodes[id], mv, who))

\* C14 (amended): the score of a move with a visited child that is no
\* terminal leaf is sign * child.wincount / child.visit_count
\* + C * sqrt(ln(node.visit_count) / child.visit_count), with sign = +1 exactly
\* when the role of the node that makes the move, the parent of the child, is
\* the perspective role, and -1 otherwise.
C14_UCBFormula ==
    \A id \in DOMAIN nodes : \A mv \in Scored(nodes, nodes[id]) :
        LET chld == nodes[nodes[id].children[mv]]
        IN  /\ chld.role = Other(nodes[id].role)
            /\ UCBValue(IF nodes[id].role = who THEN 1 ELSE -1, chld,
                        nodes[id].visit_count,
                        UCB_score(nodes, nodes[id], mv, who))

\* a node of the opponent and a node of this agent each have a child with
\* wins that the formula scores, the exploration weight being the default
C14_Witness ==
    /\ exploration_w = C_HUNDREDTHS
    /\ \E id \in DOMAIN nodes : \E mv \in Scored(nodes, nodes[id]) :
          /\ nodes[id].role = oppo
          /\ nodes[id].visit_count >= 2
          /\ nodes[nodes[id].children[mv]].wincount > 0
          /\ UCB_score(nodes, nodes[id], mv, who) < 0
    /\ \E id \in DOMAIN nodes : \E mv \in Scored(nodes, nodes[id]) :
          /\ nodes[id].role = who
          /\ nodes[nodes[id].children[mv]].wincount > 0

\* C15: at every node a descent has entered, a legal move without a child
\* scores above every legal move whose child is no terminal leaf if the node's
\* role is this agent's, and scores no higher than any legal move with a child
\* if the node's role is the opponent's.
C15_SentinelOrder ==
    (last.op = "cycle" /\ pc \in {"loop", "end"}) =>
        \A k \in 1 .. Len(last.path) :
            LET n == nodes[last.path[k]]
                b == BoardOnPath(nodes, state, last.path, k)
            IN  \A p \in LegalMoves(b, n.role) : \A q \in LegalMoves(b, n.role) :
                   (~has_child(n, Place(p, n.role)) /\ has_child(n, Place(q, n.role))) =>
                      IF n.role = who
                      THEN nodes[n.children[Place(q, n.role)]].is_leaf
                             \/ UCB_score(nodes, n, Place(p, n.role), who)
                                   > UCB_score(nodes, n, Place(q, n.role), who)
                      ELSE UCB_score(nodes, n, Place(p, n.role), who)
                              <= UCB_score(nodes, n, Place(q, n.role), who)

\* the nodes of the subtree of node id, each with its board, the board of
\* node id being b
RECURSIVE Located(_, _, _)
Located(ns, id, b) ==
    {<<id, b>>} \cup
        UNION {Located(ns, ns[id].children[m], After(b, m)) :
                  m \in DOMAIN ns[id].children}

\* while a turn is searching, the board of the root is the board given
Searching == pc \in {"loop", "burst", "end"}

\* C16: at every node of the tree that has a child flagged as a terminal leaf
\* (the side to move at the child has no legal move, so the child is a win
\* for the side to move at the node), the move the scan of selection picks is
\* never a move to a child that is no terminal leaf.
C16_ForcedResultPicked ==
    Searching =>
        \A l \in Located(nodes, root, state) :
            LET n == nodes[l[1]]
                best == BestOf(nodes, l[1], l[2]).move
            IN  (\E m \in DOMAIN n.children : nodes[n.children[m]].is_leaf) =>
                    (has_child(n, best) => nodes[n.children[best]].is_leaf)

\* the nodes made in this step
Added == (DOMAIN nodes') \ (DOMAIN nodes)

\* the node a descent that ends in this step stopped at, and its board
TipOfCycle == last'.path[Len(last'.path)]
TipBoard == BoardOnPath(nodes, state, last'.path, Len(last'.path))

\* C17: no step of a simulation cycle removes a node; a cycle adds at most
\* one node, and none exactly when its descent ends at a node whose role has
\* no legal move on the node's board; with rollout workers the node is added
\* by the step that starts the expansion and no later step of the cycle adds
\* another; the added node is a child of the node the descent stopped at,
\* keyed by its own move, and its role is the opponent of its parent's role.
C17_OneNodePerCycle ==
    [][(pc \in {"loop", "burst", "spawn", "join", "drain"}) =>
         /\ DOMAIN nodes \subseteq DOMAIN nodes'
         /\ Cardinality(Added) <= 1
         /\ (pc \in {"loop", "burst"} /\ CycleEnds) =>
               ((Added = {}) = (LegalMoves(TipBoard, nodes[TipOfCycle].role) = {}))
         /\ (pc = "loop" /\ pc' = "spawn") =>
               /\ Cardinality(Added) = 1
               /\ LegalMoves(TipBoard, nodes[TipOfCycle].role) # {}
         /\ (pc \in {"spawn", "join", "drain"}) => Added = {}
         /\ \A k \in Added :
               /\ k = last'.created
               /\ has_child(nodes'[TipOfCycle], nodes'[k].move)
               /\ ~has_child(nodes[TipOfCycle], nodes'[k].move)
               /\ nodes'[TipOfCycle].children[nodes'[k].move] = k
               /\ nodes'[k].role = Other(nodes[TipOfCycle].role)
               /\ DOMAIN nodes'[k].children = {}
      ]_vars

\* a cycle has added a node of this agent's role below a node of the
\* opponent that is not the root
C17_Witness ==
    /\ last.op = "cycle"
    /\ last.created # 0
    /\ Len(last.path) >= 2
    /\ nodes[last.path[Len(last.path)]].role = oppo
    /\ nodes[last.created].role = who
    /\ nodes[last.path[Len(last.path)]].children[nodes[last.created].move] = last.created

\* the wincount of node j before this step, a node made in it starting at
\* INIT_WINRATE
WincountBefore(j) == IF j \in DOMAIN nodes THEN nodes[j].wincount ELSE INIT_WINRATE

\* C18: the step that ends a simulation cycle with an expansion adds the one
\* result of the cycle to the wincount of the new child and of every node of
\* the descent path up to the root (when the descent ends at a node without a
\* legal move, to every node of the path above that node); no other step of
\* a cycle changes a wincount; and no step of a cycle changes anything of a
\* node that is neither on the path nor the new child.
C18_ResultOnPath ==
    [][(pc \in {"loop", "burst", "spawn", "join", "drain"}) =>
         /\ CycleEnds =>
              /\ last'.created # 0 =>
                    /\ nodes'[last'.created].wincount
                          = WincountBefore(last'.created) + last'.result
                    /\ \A k \in 1 .. Len(last'.path) :
                          nodes'[last'.path[k]].wincount
                             = nodes[last'.path[k]].wincount + last'.result
              /\ last'.created = 0 =>
                    \A k \in 1 .. (Len(last'.path) - 1) :
                          nodes'[last'.path[k]].wincount
                             = nodes[last'.path[k]].wincount + last'.result
              /\ last'.path[1] = root
         /\ ~CycleEnds =>
              \A j \in DOMAIN nodes : nodes'[j].wincount = nodes[j].wincount
         /\ \A j \in DOMAIN nodes :
              (~InPath(last'.path, j) /\ j # last'.created) =>
                  /\ j \in DOMAIN nodes'
                  /\ nodes'[j] = nodes[j]
      ]_vars

\* a cycle without rollout workers has added its won result to a new child
\* two levels below the root, while visited nodes lie off its path
C18_Witness ==
    /\ last.op = "cycle"
    /\ leaf_parallel = 0
    /\ last.created # 0
    /\ Len(last.path) >= 2
    /\ last.result > 0
    /\ nodes[last.created].wincount = last.result
    /\ nodes[root].wincount > last.result
    /\ \E j \in DOMAIN nodes :
          ~InPath(last.path, j) /\ j # last.created /\ nodes[j].wincount > 0

\* the board of the root: the board given while a turn is searching, and
\* the board committed last between the turns
RootBoard == IF pc \in {"env", "call"} THEN last_board ELSE state

\* every key of the children map of node id, whose board is b, is legal on
\* b, and so on below each child on the board after its move
RECURSIVE LegalBelow(_, _, _)
LegalBelow(ns, id, b) ==
    \A m \in DOMAIN ns[id].children :
        /\ Legal(b, m)
        /\ LegalBelow(ns, ns[id].children[m], After(b, m))

\* a rollout worker is running
WorkersRunning == \E t \in 1 .. Workers : threads[t] # "idle"

C20_ChildCallsGuarded ==
    /\ [](\A id \in DOMAIN nodes : \A m \in DOMAIN nodes[id].children :
             nodes[id].children[m] \in DOMAIN nodes)
    /\ [](pc = "drain" =>
             /\ exp.best_move \in DOMAIN nodes[exp.tip].children
             /\ nodes[exp.tip].children[exp.best_move] = exp.child)
    /\ [][/\ \A id \in (DOMAIN nodes) \cap (DOMAIN nodes') :
                \A m \in DOMAIN nodes[id].children :
                   /\ m \in DOMAIN nodes'[id].children
                   /\ nodes'[id].children[m] = nodes[id].children[m]
          /\ (pc \in {"loop", "burst"} /\ last'.op \in {"cycle", "expand"}) =>
                /\ \A k \in 1 .. (Len(last'.path) - 1) :
                      /\ nodes'[last'.path[k + 1]].move
                            \in DOMAIN nodes[last'.path[k]].children
                      /\ nodes[last'.path[k]].children[nodes'[last'.path[k + 1]].move]
                            = last'.path[k + 1]
                /\ \A k \in Added :
                      nodes'[k].move \notin DOMAIN nodes[TipOfCycle].children
          /\ MovesRoot =>
                IF last'.mv \in DOMAIN nodes[root].children
                THEN root' = nodes[root].children[last'.mv]
                ELSE root' \notin DOMAIN nodes
         ]_vars

\* on a tree kept from an earlier turn, a cycle has entered a child that was
\* there before and has made a child for a move that had none
C20_Witness ==
    /\ last.op = "cycle"
    /\ calls >= 2
    /\ last.created # 0
    /\ Len(last.path) >= 2
    /\ nodes[last.path[2]].visit_count >= 2
    /\ Cardinality(DOMAIN nodes[last.path[1]].children) >= 2

(***************************************************************************)
(* Early stop: constructor lines 134-144, early lines 598-628,             *)
(* mcts_take_action lines 683-719                                           *)
(***************************************************************************)
\* the keys early and early_c as given to the constructor; early_c in
\* hundredths
EarlyKeys == {[early |-> TRUE, early_c |-> Absent],
              [early |-> TRUE, early_c |-> 0],
              [early |-> FALSE, early_c |-> 50]}

\* single-threaded time-managed mode (key basic_f = 100) with early stop
InitEarly ==
    /\ InitCommon
    /\ leaf_parallel = 0
    /\ sim_count = TIMED_SIM_COUNT
    /\ exploration_w = C_HUNDREDTHS
    /\ use_time_management = TRUE
    /\ basic_const = 100
    /\ enhanced_peak = 0
    /\ unst_N = 0
    /\ \E keys \in EarlyKeys :
          /\ early_key = keys.early
          /\ if_early = IfEarly(keys)
          /\ earlyc_p = EarlycP(keys)
    /\ simcount_lastturn \in UninitInts

SpecEarly == InitEarly /\ [][NextSeq]_vars

\* early stop is configured: the key early, or a time-scaled margin
EarlyConfigured == early_key \/ earlyc_p # 0

\* the visit counts of the root's children, the largest and the largest of
\* the others
RootCounts ==
    LET ch == nodes[root].children
        top == IF DOMAIN ch = {} THEN NoMove
               ELSE CHOOSE m \in DOMAIN ch :
                      \A o \in DOMAIN ch :
                         nodes[ch[o]].visit_count <= nodes[ch[m]].visit_count
        rest == DOMAIN ch \ {top}
    IN  [leader |-> top,
         most |-> IF top = NoMove THEN 0 ELSE nodes[ch[top]].visit_count,
         second |-> IF rest = {} THEN 0
                    ELSE LET m == CHOOSE m \in rest : \A o \in rest :
                                    nodes[ch[o]].visit_count <= nodes[ch[m]].visit_count
                         IN  nodes[ch[m]].visit_count]

\* the most-visited child of the root is ahead of the second by more than
\* the margin of the whole thinking time
LeaderAhead ==
    LET c == RootCounts
    IN  /\ c.leader # NoMove
        /\ IF earlyc_p = 0
           THEN c.most - c.second > EARLY_T * Width
           ELSE /\ c.most > c.second
                /\ (c.most - c.second) * thinking_time.den * 100
                      > thinking_time.num * simcount_lastturn * earlyc_p * Width

\* C21: with early stop configured, once simulations of the turn have put the
\* most-visited root child ahead of the second by the margin, no further
\* simulation cycle runs in the turn, and the move committed is that leader
C21_EarlyStop ==
    /\ [][(EarlyConfigured /\ pc = "loop" /\ i > 0 /\ LeaderAhead) => ~CycleEnds]_vars
    /\ [][(EarlyConfigured /\ pc = "end" /\ pc' = "env" /\ LeaderAhead)
             => move' = RootCounts.leader]_vars

(***************************************************************************)
(* Stability retries: is_unstable lines 630-634, mcts_take_action lines    *)
(* 719-748                                                                  *)
(***************************************************************************)
\* single-threaded fixed-simulation mode (key fix_sim) with one stability
\* retry (key unst = 1)
InitUnst ==
    /\ InitCommon
    /\ EarlyOff
    /\ leaf_parallel = 0
    /\ sim_count = SimCount
    /\ exploration_w = C_HUNDREDTHS
    /\ use_time_management = FALSE
    /\ basic_const = BASIC_C
    /\ enhanced_peak = 0
    /\ unst_N = 1

SpecUnst == InitUnst /\ [][NextTime]_vars

\* a burst of the stability loop starts in this step
BurstStarts == pc = "end" /\ pc' = "burst"

\* a simulation cycle of a burst runs in this step
BurstCycleRuns == pc = "burst" /\ CycleEnds

\* the cycle of a burst that runs in this step stays within half of the
\* turn's budget: half of thinking_time with time management, half of
\* sim_count without
WithinHalfBudget ==
    IF use_time_management
    THEN (elapsed - start2) * thinking_time.den * 2 < thinking_time.num
    ELSE i' * 2 <= sim_count

\* C22: with unst = K a turn starts at most K bursts, starts one only while
\* the most-visited and the highest-win-rate root child differ, runs every
\* cycle of a burst within half of the turn's budget, and commits the
\* most-visited child
C22_HalfBudgetBursts ==
    /\ [](unst_N_thisstep \in 0 .. unst_N)
    /\ [][BurstStarts => /\ unst_N_thisstep' = unst_N_thisstep - 1
                         /\ best_children(nodes, nodes[root])
                               # highest_win_children(nodes, nodes[root])]_vars
    /\ [][BurstCycleRuns => WithinHalfBudget]_vars
    /\ [][(pc = "end" /\ pc' = "env")
             => move' = best_children(nodes, nodes[root])]_vars

(***************************************************************************)
(* The enhanced schedule: mcts_take_action lines 649-657                   *)
(***************************************************************************)
\* the turn counters the schedule is compared on
MaxTurn == 6

\* a <= b for quotients with positive divisors
LeqQ(a, b) == a.num * b.den <= b.num * a.den

\* thinking_time is computed in this step of an agent in enhanced mode
ScheduleApplied == pc = "call" /\ pc' # "call" /\ enhanced_peak # 0

\* lines 651-657: the value computed is remaining_time * time_bonus over
\* basic_const + max(enhanced_peak - 2 * turn, 0), turn and remaining_time
\* being the members as the call finds them
ScheduleFormula ==
    [][ScheduleApplied =>
          thinking_time'.num * (basic_const + Max(enhanced_peak - (2 * turn), 0))
             = remaining_time * time_bonus * thinking_time'.den]_vars

AllBoards == [stone : [Cells -> {empty, black, white}], who_take_turns : {black, white}]

\* lines 455-457: the empty points of b, in index order
RECURSIVE EmptyFrom(_, _)
EmptyFrom(b, c) ==
    IF c >= NCells THEN << >>
    ELSE (IF b.stone[c] = empty THEN <<c>> ELSE << >>) \o EmptyFrom(b, c + 1)

\* line 459: the orders std::shuffle can leave the vector q in
Shuffles(q) ==
    {[k \in 1 .. Len(q) |-> q[f[k]]] :
        f \in {g \in [1 .. Len(q) -> 1 .. Len(q)] :
                  \A a, b \in 1 .. Len(q) : a # b => g[a] # g[b]}}

\* std::swap(empty[a], empty[b]), the positions counted from 1
Swap(q, a, b) == [q EXCEPT ![a] = q[b], ![b] = q[a]]

\* a pass that gives up at the first placement that is not legal
RolloutPassNoRetry(r) ==
    LET mv == Place(r.empty[r.n], r.rollout.who_take_turns)
    IN  IF Legal(r.rollout, mv)
        THEN [r EXCEPT !.rollout = After(r.rollout, mv), !.n = r.n - 1, !.i = 0]
        ELSE [r EXCEPT !.n = 0]

\* lines 462-469: one pass of the loop over the locals r
RolloutPass(r) ==
    LET mv == Place(r.empty[r.n], r.rollout.who_take_turns)
    IN  IF Legal(r.rollout, mv)
        THEN [r EXCEPT !.rollout = After(r.rollout, mv), !.n = r.n - 1, !.i = 0]
        ELSE IF r.i < r.n
        THEN [r EXCEPT !.empty = Swap(r.empty, r.i + 1, r.n), !.i = r.i + 1]
        ELSE [r EXCEPT !.n = 0]

\* line 474: the outcome read off the board b the loop has left
Outcome(b) == IF Other(b.who_take_turns) = who THEN WIN_WEIGHT ELSE 0

\* rollout(state) is called with some board
RoCall ==
    /\ ro.pc = "idle"
    /\ \E b \in AllBoards :
          ro' = [RoIdle EXCEPT !.pc = "shuffle", !.state = b, !.empty = EmptyFrom(b, 0)]
    /\ UNCHANGED <<cfgVars, simcount_lastturn, timeVars, treeVars, parVars, last_board,
                   turn, remaining_time, state, pc, i, move, ret, calls, last>>

\* lines 459-461: shuffle, copy the board, enter the loop
RoShuffle ==
    /\ ro.pc = "shuffle"
    /\ \E q \in Shuffles(ro.empty) :
          ro' = [ro EXCEPT !.pc = "loop", !.empty = q, !.rollout = ro.state,
                           !.i = 0, !.n = Len(q)]
    /\ UNCHANGED <<cfgVars, simcount_lastturn, timeVars, treeVars, parVars, last_board,
                   turn, remaining_time, state, pc, i, move, ret, calls, last>>

\* line 461: the loop goes on while n is not 0
RoPass ==
    /\ ro.pc = "loop"
    /\ ro.n # 0
    /\ ro' = RolloutPass(ro)
    /\ UNCHANGED <<cfgVars, simcount_lastturn, timeVars, treeVars, parVars, last_board,
                   turn, remaining_time, state, pc, i, move, ret, calls, last>>

\* lines 474-479 without rollout workers: compute the outcome and return it
RoReturn ==
    /\ ro.pc = "loop"
    /\ ro.n = 0
    /\ ro' = [ro EXCEPT !.pc = "idle", !.outcome = Outcome(ro.rollout)]
    /\ UNCHANGED <<cfgVars, simcount_lastturn, timeVars, treeVars, parVars, last_board,
                   turn, remaining_time, state, pc, i, move, ret, calls, last>>

NextRollout ==
    \/ RoCall
    \/ RoShuffle
    \/ RoPass
    \/ RoReturn

\* a single-threaded agent in fixed-simulation mode
InitRollout == Init /\ leaf_parallel = 0

\* rollout called on any board by a single-threaded agent; the thread that
\* runs the loop goes on running it
SpecRollout ==
    /\ InitRollout
    /\ [][NextRollout]_vars
    /\ WF_vars(RoPass)
    /\ WF_vars(RoReturn)

\* the side to move on b has no legal placement
Stuck(b) == LegalMoves(b, b.who_take_turns) = {}

\* C24: rollout terminates on every board; it leaves its loop only when the
\* side to move has no legal placement, returns WIN_WEIGHT when that side is
\* the opponent and 0 when it is self, a value some playout of legal
\* placements from the given board ends with, and never changes that board
C24_RolloutOutcome ==
    /\ (ro.pc = "loop") ~> (ro.pc = "idle")
    /\ [][(ro.pc = "loop" /\ ro'.pc = "idle") =>
             /\ Stuck(ro.rollout)
             /\ ro'.outcome = (IF ro.rollout.who_take_turns = oppo THEN WIN_WEIGHT ELSE 0)
             /\ ro'.outcome \in {0, WIN_WEIGHT}
             /\ ro'.outcome \in rollout(ro.state)]_vars
    /\ [][ro.pc # "idle" => ro'.state = ro.state]_vars

\* a rollout that skipped a placement that was not legal, placed stones of
\* both sides and returned a win
C24_Witness ==
    /\ ro.pc = "idle"
    /\ ro.outcome = WIN_WEIGHT
    /\ ro.i > 0
    /\ \E c, d \in Cells : /\ ro.state.stone[c] = empty /\ ro.rollout.stone[c] = black
                          /\ ro.state.stone[d] = empty /\ ro.rollout.stone[d] = white
    /\ \E c \in Cells : ro.rollout.stone[c] = empty

(***************************************************************************)
(* Bounds of the counters of a node                                         *)
(***************************************************************************)
\* C25: every node of the tree has 0 <= wincount <= WIN_WEIGHT * visit_count,
\* in every state, with and without rollout workers, terminal leaves included
C25_WincountBounded ==
    \A id \in DOMAIN nodes :
        /\ 0 <= nodes[id].wincount
        /\ nodes[id].wincount <= WIN_WEIGHT * nodes[id].visit_count

\* a terminal leaf of the opponent's role reached twice, holding every win its
\* visits allow, in a tree with a node that has won some of its visits only
C25_Witness ==
    /\ \E id \in DOMAIN nodes :
          /\ nodes[id].is_leaf
          /\ nodes[id].role = oppo
          /\ nodes[id].visit_count >= 2 * Width
          /\ nodes[id].wincount = WIN_WEIGHT * nodes[id].visit_count
    /\ \E id \in DOMAIN nodes :
          /\ 0 < nodes[id].wincount
          /\ nodes[id].wincount < WIN_WEIGHT * nodes[id].visit_count

\* every node but the root has been visited by a whole cycle
AllVisited == \A id \in DOMAIN nodes : id # root => nodes[id].visit_count >= Width

\* the visits of a node cover those of its children
VisitsCover ==
    \A id \in DOMAIN nodes : nodes[id].visit_count >= SumVisits(nodes, ChildrenOf(nodes, id))

\* no quotient by a visit count of 0 and no logarithm of 0 in UCB_score and
\* highest_win_children, whichever node they are called on
Divisible ==
    \A id \in DOMAIN nodes : \A m \in DOMAIN nodes[id].children :
        /\ nodes[nodes[id].children[m]].visit_count > 0
        /\ nodes[id].visit_count > 0
        /\ UCB_score(nodes, nodes[id], m, who) # NaN

\* C26 as stated: in every state every node but the root has at least
\* max(1, leaf_parallel) visits and every node at least the visits of its
\* children, so that no score divides by 0 or takes the logarithm of 0
C26_VisitsAlways == AllVisited /\ VisitsCover /\ Divisible

\* C26 amended: every node has at least the visits of its children in every
\* state; every node but the root has at least max(1, leaf_parallel) visits,
\* and no score divides by 0 or takes the logarithm of 0, in every state in
\* which no expansion is waiting for its rollout workers
C26_VisitsOutsideExpansion ==
    /\ VisitsCover
    /\ exp = NoExp => (AllVisited /\ Divisible)

\* with rollout workers and no expansion in flight, a node below the root
\* has a child and the visits of two cycles
C26_Witness ==
    /\ leaf_parallel # 0
    /\ exp = NoExp
    /\ \E id \in DOMAIN nodes :
          /\ id # root
          /\ DOMAIN nodes[id].children # {}
          /\ nodes[id].visit_count = 2 * Width

(***************************************************************************)
(* The move returned in fixed-simulation mode                               *)
(***************************************************************************)
\* a call of mcts_take_action returns in this step
Returns == pc = "end" /\ pc' = "env"

\* C27: in fixed-simulation mode with sim_count >= 1 a call returns the empty
\* move only when self has no legal move on the board given; when self has a
\* legal move the call returns, the move returned is a legal placement, and
\* the root becomes the child of the old root for that move
C27_MoveReturned ==
    /\ [](pc = "fatal" =>
             ~(~use_time_management /\ sim_count >= 1 /\ LegalMoves(state, who) # {}))
    /\ [][(Returns /\ ~use_time_management /\ sim_count >= 1) =>
             /\ ret' = NoMove => LegalMoves(state, who) = {}
             /\ LegalMoves(state, who) # {} =>
                   /\ ret' # NoMove
                   /\ Legal(state, ret')
                   /\ has_child(nodes[root], ret')
                   /\ root' = nodes[root].children[ret']
                   /\ nodes'[root'] = nodes[root']]_vars

\* a call has returned a placement and the root is the child of that move,
\* visited in the search, with a child of its own
C27_Witness ==
    /\ ~use_time_management
    /\ pc = "env"
    /\ last.op = "finish"
    /\ ret # NoMove
    /\ nodes[root].move = ret
    /\ nodes[root].role = oppo
    /\ nodes[root].visit_count >= 2
    /\ DOMAIN nodes[root].children # {}

====
